---- MODULE Spec2Model ----
(***************************************************************************)
(* Model of btk/deblend.py: the Deblender strategies (PeakLocalMax,        *)
(* SepSingleBand, SepMultiBand, DeepDisc, Scarlet), their batch_call over  *)
(* a worker pool, and the reconciliation of the per-example results into   *)
(* one DeblendBatch.                                                       *)
(*                                                                         *)
(* Conventions.                                                            *)
(*  - Python indices are 0-based, TLA+ sequences 1-based: example ii of    *)
(*    the code is element ii+1 here, band 0 is band 1.                     *)
(*  - An optional value is a sequence of length 0 (None) or 1.             *)
(*  - A sky position is its right ascension in arcseconds on the equator   *)
(*    (dec = 0), an integer; a catalog is the sequence of its rows' ra.    *)
(*  - An image stack is [shape, planes]; a plane is <<>> (all zero) or     *)
(*    <<p>> (the footprint / masked image of the detection at p).          *)
(*  - The detectors (sep.extract, peak_local_max, the DeepDisc predictor,  *)
(*    scarlet) are black boxes: an example carries what they find in it.   *)
(***************************************************************************)
EXTENDS Integers, Sequences, FiniteSets, TLC

\* ------------------------------------------------------------------ bounds
MaxN == 2
MaxThr == 1
MaxSources == 2
MaxBatch == 2
MaxJobs == 2
NumBands == 2
ImageSize == 2
MaxDet == 2
MaxPos == 1

\* ------------------------------------------------------- program constants
ArcsecPerDegree == 3600
FullCircle == 360 * ArcsecPerDegree

\* ------------------------------------------------------------ Python values
None == << >>
Some(x) == << x >>

Min(a, b) == IF a <= b THEN a ELSE b
Max(a, b) == IF a >= b THEN a ELSE b

\* s[:n] for n >= 0
PySliceTo(s, n) == SubSeq(s, 1, Min(n, Len(s)))

\* s[k:], k negative counts from the end
PySliceFrom(s, k) ==
    LET start == IF k < 0 THEN Max(Len(s) + k, 0) ELSE Min(k, Len(s))
    IN  SubSeq(s, start + 1, Len(s))

\* np.zeros((n, ...)): n all-zero planes
np_zeros(n) == [k \in 1..n |-> << >>]

\* the planes cut out by the detections dets, one per detection
Footprints(dets) == [k \in 1..Len(dets) |-> << dets[k] >>]

\* stack[:len(vals)] = vals, for len(vals) <= len(stack)
AssignPrefix(stack, vals) ==
    [k \in 1..Len(stack) |-> IF k <= Len(vals) THEN vals[k] ELSE stack[k]]

Raise(e) == [error |-> e, value |-> None]
Return(x) == [error |-> "", value |-> Some(x)]

DeblendExample(max_n_sources, catalog, n_bands, image_size, segmentation, deblended_images, extra_data) ==
    [max_n_sources |-> max_n_sources, catalog |-> catalog, n_bands |-> n_bands,
     image_size |-> image_size, segmentation |-> segmentation,
     deblended_images |-> deblended_images, extra_data |-> extra_data]

\* ------------------------------------------------------------ PeakLocalMax
\* skimage's peak_local_max(..., num_peaks=n): at most n peaks are returned
peak_local_max(peaks, num_peaks) == PySliceTo(peaks, num_peaks)

deblend_PeakLocalMax(d, ex, b) ==
    LET coordinates == peak_local_max(ex.detections[1], d.max_n_sources)
    IN  IF Len(coordinates) > d.max_n_sources
        THEN Raise("ValueError")
        ELSE Return(DeblendExample(d.max_n_sources, coordinates,
                                   None, None, None, None, None))

\* ----------------------------------------------------------- SepSingleBand
deblend_SepSingleBand(d, ex, b) ==
    LET catalog == ex.detections[1]
        planes == AssignPrefix(np_zeros(d.max_n_sources), Footprints(catalog))
    IN  IF Len(catalog) > d.max_n_sources
        THEN Raise("ValueError")
        ELSE Return(DeblendExample(
                 d.max_n_sources, catalog, Some(1), Some(b.image_size),
                 Some([shape |-> << d.max_n_sources, b.image_size, b.image_size >>,
                       planes |-> planes]),
                 Some([shape |-> << d.max_n_sources, 1, b.image_size, b.image_size >>,
                       planes |-> planes]),
                 None))

\* ------------------------------------------------------------ SepMultiBand
\* angular separation of two points of the equator, in arcseconds
separation(p, q) ==
    LET dd == IF p >= q THEN p - q ELSE q - p
    IN  Min(dd, FullCircle - dd)

\* c1.match_to_catalog_sky(c2): distance of p to its nearest neighbour in c2
distance2d(p, c2) ==
    LET ds == {separation(p, c2[k]) : k \in 1..Len(c2)}
    IN  CHOOSE m \in ds : \A x \in ds : m <= x

SurvivesAtThreshold(dist, matching_threshold) == dist >= matching_threshold

\* the mask distance2d > self.matching_threshold
Survives(dist, matching_threshold) == dist > matching_threshold

KeepNoneWhenEmpty(c2, c1, matching_threshold) ==
    IF Len(c1) > 0 /\ Len(c2) > 0
    THEN c2 \o SelectSeq(c1, LAMBDA p : Survives(distance2d(p, c2), matching_threshold))
    ELSE c2

AppendAllDetections(c2, c1, matching_threshold) == c2 \o c1

\* one pass of the band loop: c2 the running coordinates, c1 the band's detections
merge_detections(c2, c1, matching_threshold) ==
    IF Len(c1) > 0 /\ Len(c2) > 0
    THEN c2 \o SelectSeq(c1, LAMBDA p : Survives(distance2d(p, c2), matching_threshold))
    ELSE c2 \o c1

\* the state of SepMultiBand.deblend after bands 1..k: the error raised so far,
\* the running coordinates, and the running coordinates after each band
RECURSIVE band_loop(_, _, _)
band_loop(d, ex, k) ==
    IF k = 1
    THEN IF Len(ex.detections[1]) > d.max_n_sources
         THEN [error |-> "ValueError", coordinates |-> ex.detections[1], log |-> << >>]
         ELSE [error |-> "", coordinates |-> ex.detections[1],
               log |-> << ex.detections[1] >>]
    ELSE LET prev == band_loop(d, ex, k - 1)
             c1 == ex.detections[k]
             merged == merge_detections(prev.coordinates, c1, d.matching_threshold)
         IN  IF prev.error # "" THEN prev
             ELSE IF Len(c1) > d.max_n_sources
                  THEN [prev EXCEPT !.error = "ValueError"]
                  ELSE [error |-> "", coordinates |-> merged,
                        log |-> Append(prev.log, merged)]

deblend_SepMultiBand(d, ex, b) ==
    LET final == band_loop(d, ex, Len(ex.detections))
    IN  IF final.error # ""
        THEN Raise(final.error)
        ELSE Return(DeblendExample(d.max_n_sources, final.coordinates,
                                   None, None, None, None, None))

\* ---------------------------------------------------------------- DeepDisc
ExtraFromNext(segmentation, max_n_sources) ==
    PySliceFrom(segmentation, max_n_sources - Len(segmentation) + 1)

\* segmentation[(self.max_n_sources - segmentation.shape[0]):]
overflow_rest(segmentation, max_n_sources) ==
    PySliceFrom(segmentation, max_n_sources - Len(segmentation))

deblend_DeepDisc(d, ex, b) ==
    LET centers == ex.detections[1]
        segmentation == Footprints(centers)
        n == Len(segmentation)
        seg_shape == << d.max_n_sources, b.image_size, b.image_size >>
        deb_shape == << d.max_n_sources, b.n_bands, b.image_size, b.image_size >>
    IN  IF n > d.max_n_sources /\ ~d.allow_over_n_sources
        THEN Raise("ValueError")
        ELSE IF n > d.max_n_sources /\ d.allow_over_n_sources
        THEN LET segs == AssignPrefix(np_zeros(d.max_n_sources),
                                      PySliceTo(segmentation, d.max_n_sources))
                 deblended_images == AssignPrefix(np_zeros(n), segmentation)
                 deblended_ims == PySliceTo(deblended_images, d.max_n_sources)
                 extra_dict ==
                     {<< "segs", overflow_rest(segmentation, d.max_n_sources) >>,
                      << "deblended_images",
                         overflow_rest(deblended_images, d.max_n_sources) >>}
             IN  Return(DeblendExample(
                     d.max_n_sources, centers, Some(b.n_bands), Some(b.image_size),
                     Some([shape |-> seg_shape, planes |-> segs]),
                     Some([shape |-> deb_shape, planes |-> deblended_ims]),
                     Some(extra_dict)))
        ELSE LET segs == AssignPrefix(np_zeros(d.max_n_sources), segmentation)
                 deblended_images == AssignPrefix(np_zeros(d.max_n_sources), segmentation)
             IN  Return(DeblendExample(
                     d.max_n_sources, centers, Some(b.n_bands), Some(b.image_size),
                     Some([shape |-> seg_shape, planes |-> segs]),
                     Some([shape |-> deb_shape, planes |-> deblended_images]),
                     Some({})))

\* ----------------------------------------------------------------- Scarlet
ScarletEmptyNoImages(d, b) ==
    Return(DeblendExample(d.max_n_sources, << >>, Some(b.n_bands), Some(b.image_size),
                          None, None, None))

\* "if catalog is empty return no images": an empty catalog and zero images
scarlet_empty(d, b) ==
    Return(DeblendExample(
        d.max_n_sources, << >>, Some(b.n_bands), Some(b.image_size), None,
        Some([shape |-> << d.max_n_sources, b.n_bands, b.image_size, b.image_size >>,
              planes |-> np_zeros(d.max_n_sources)]),
        None))

ReraiseLinAlgError(d, b) == Raise("LinAlgError")

\* the except LinAlgError handler
except_LinAlgError(d, b) ==
    Return(DeblendExample(
        d.max_n_sources, << >>, Some(b.n_bands), Some(b.image_size), None,
        Some([shape |-> << d.max_n_sources, b.n_bands, b.image_size, b.image_size >>,
              planes |-> np_zeros(d.max_n_sources)]),
        None))

\* ex.fit is what the scarlet calls do: "ok" (every source initialised and fitted),
\* "singular" (LinAlgError), "skipped" (init_all_sources leaves one source out)
deblend_Scarlet(d, ex, b) ==
    LET catalog == ex.detections[1]
        sources == IF ex.fit = "skipped"
                   THEN PySliceTo(catalog, Len(catalog) - 1) ELSE catalog
        individual_sources == Footprints(sources)
    IN  IF Len(catalog) = 0 THEN scarlet_empty(d, b)
        ELSE IF ex.fit = "singular" THEN except_LinAlgError(d, b)
        ELSE IF Len(individual_sources) > d.max_n_sources
        THEN Raise("ValueError")
        ELSE IF Len(sources) # Len(catalog)
        THEN Raise("AssertionError")
        ELSE Return(DeblendExample(
                 d.max_n_sources, catalog, Some(b.n_bands), Some(b.image_size), None,
                 Some([shape |-> << d.max_n_sources, b.n_bands,
                                    b.image_size, b.image_size >>,
                       planes |-> AssignPrefix(np_zeros(d.max_n_sources),
                                               individual_sources)]),
                 Some({<< "scarlet_sources", sources >>})))

\* ------------------------------------------------------- Deblender.deblend
deblend(d, ii, b) ==
    LET ex == b.examples[ii]
    IN  CASE d.kind = "PeakLocalMax" -> deblend_PeakLocalMax(d, ex, b)
          [] d.kind = "SepSingleBand" -> deblend_SepSingleBand(d, ex, b)
          [] d.kind = "SepMultiBand" -> deblend_SepMultiBand(d, ex, b)
          [] d.kind = "DeepDisc" -> deblend_DeepDisc(d, ex, b)
          [] d.kind = "Scarlet" -> deblend_Scarlet(d, ex, b)

GrowMaxNSources(d, ii, b) ==
    IF /\ d.kind = "DeepDisc"
       /\ d.allow_over_n_sources
       /\ Len(b.examples[ii].detections[1]) > d.max_n_sources
    THEN [d EXCEPT !.max_n_sources = Len(b.examples[ii].detections[1])]
    ELSE d

\* self after deblend(ii, blend_batch): no deblend method assigns to an attribute
\* of self (the assignment to self.max_n_sources at line 761 is commented out)
self_after_deblend(d, ii, b) == d

\* blend_batch after deblend(ii, blend_batch): the methods read blend_images[ii],
\* wcs, image_size and catalog_list[ii] and write to none of them
batch_after_deblend(d, ii, b) == b

\* the running coordinates after each band of example ii (SepMultiBand only)
band_log_of(d, ii, b) ==
    IF d.kind = "SepMultiBand"
    THEN band_loop(d, b.examples[ii], Len(b.examples[ii].detections)).log
    ELSE << >>

\* ---------------------------------------------------- Deblender.batch_call
CatalogListReversed(output) ==
    [i \in 1..Len(output) |-> output[Len(output) + 1 - i].value[1].catalog]

\* [db_example.catalog for db_example in output]
catalog_list_of(output) == [i \in 1..Len(output) |-> output[i].value[1].catalog]

\* np.array([...]) of per-example stacks: one leading batch dimension
np_array(stacks) ==
    IF \E i \in 1..Len(stacks) :
           stacks[i] = None \/ stacks[i][1].shape # stacks[1][1].shape
    THEN Raise("ValueError")
    ELSE Return([shape |-> << Len(stacks) >> \o stacks[1][1].shape,
                 planes |-> [i \in 1..Len(stacks) |-> stacks[i][1].planes]])

PresentInLast(output, field) ==
    CASE field = "segmentation" -> output[Len(output)].value[1].segmentation # None
      [] field = "deblended_images" -> output[Len(output)].value[1].deblended_images # None
      [] field = "extra_data" -> output[Len(output)].value[1].extra_data # None

\* output[0].<field> is not None
present_in_first(output, field) ==
    CASE field = "segmentation" -> output[1].value[1].segmentation # None
      [] field = "deblended_images" -> output[1].value[1].deblended_images # None
      [] field = "extra_data" -> output[1].value[1].extra_data # None

\* lines 91-110: the DeblendBatch built from the per-example results
reconcile(d, b, output) ==
    IF Len(output) = 0 THEN Raise("IndexError")
    ELSE
    LET segmentation ==
            IF present_in_first(output, "segmentation")
            THEN np_array([i \in 1..Len(output) |-> output[i].value[1].segmentation])
            ELSE [error |-> "", value |-> None]
        deblended ==
            IF present_in_first(output, "deblended_images")
            THEN np_array([i \in 1..Len(output) |-> output[i].value[1].deblended_images])
            ELSE [error |-> "", value |-> None]
        n_bands ==
            IF present_in_first(output, "deblended_images") /\ deblended.error = ""
            THEN Some(deblended.value[1].shape[3]) ELSE None
        extra_data ==
            IF present_in_first(output, "extra_data")
            THEN Some([i \in 1..Len(output) |-> output[i].value[1].extra_data])
            ELSE None
    IN  IF segmentation.error # "" THEN Raise(segmentation.error)
        ELSE IF deblended.error # "" THEN Raise(deblended.error)
        ELSE Return([batch_size |-> b.batch_size,
                     max_n_sources |-> d.max_n_sources,
                     catalog_list |-> catalog_list_of(output),
                     n_bands |-> n_bands,
                     image_size |-> b.image_size,
                     segmentation |-> segmentation.value,
                     deblended_images |-> deblended.value,
                     extra_data |-> extra_data])

EmptyBatchOnError(d, b, mp) ==
    IF mp.error # ""
    THEN Return([batch_size |-> 0, max_n_sources |-> d.max_n_sources,
                 catalog_list |-> << >>, n_bands |-> None,
                 image_size |-> b.image_size, segmentation |-> None,
                 deblended_images |-> None, extra_data |-> None])
    ELSE reconcile(d, b, mp.results)

\* lines 90-110: an error of multiprocess propagates, its results are reconciled
batch_call_result(d, b, mp) ==
    IF mp.error # "" THEN Raise(mp.error) ELSE reconcile(d, b, mp.results)

\* ------------------------------------------------------------------- state
VARIABLES deblender, blend_batch, njobs, pc, task, output, completed, band_log, ret,
          entry, ctor, generator, gen_pc, cur, deblended_output, pulled, advance_log

\* the state of one strategy call, and who made it
call_vars == << deblender, blend_batch, njobs, pc, task, output, completed, band_log, ret >>

\* the state of a DeblendGenerator and of its run
gen_vars == << generator, gen_pc, cur, deblended_output, pulled, advance_log >>

vars == << call_vars, entry, ctor, gen_vars >>

Kinds == {"PeakLocalMax", "SepSingleBand", "SepMultiBand", "DeepDisc", "Scarlet"}

\* the strategy objects the constructors produce
Deblenders ==
    {[kind |-> k, max_n_sources |-> m, allow_over_n_sources |-> a,
      matching_threshold |-> t] :
        k \in Kinds, m \in 1..MaxN, a \in BOOLEAN, t \in 0..MaxThr}
    \ {d \in [kind : Kinds, max_n_sources : 1..MaxN, allow_over_n_sources : BOOLEAN,
              matching_threshold : 0..MaxThr] :
           \/ d.kind # "DeepDisc" /\ d.allow_over_n_sources
           \/ d.kind # "SepMultiBand" /\ d.matching_threshold # MaxThr}

\* the bands a strategy runs its detector on
BandsOf(kind) == IF kind = "SepMultiBand" THEN NumBands ELSE 1

\* strictly ascending sequences of at most n positions
AscSeqs(P, n) ==
    {s \in UNION {[1..k -> P] : k \in 0..n} :
        \A i \in 1..(Len(s) - 1) : s[i] < s[i + 1]}

Positions == (0..MaxPos) \cup {FullCircle - 1}

\* every example over Positions, for a call on one example
Examples(kind) ==
    [detections : [1..BandsOf(kind) -> AscSeqs(Positions, MaxDet)],
     fit : IF kind = "Scarlet" THEN {"ok", "singular", "skipped"} ELSE {"ok"}]

\* scenes of n sources at 0..n-1 that every band detects, for the batches
Scenes(kind) ==
    {[detections |-> [band \in 1..BandsOf(kind) |-> [k \in 1..n |-> k - 1]],
      fit |-> f] :
        n \in 0..MaxSources,
        f \in IF kind = "Scarlet" THEN {"ok", "singular", "skipped"} ELSE {"ok"}}

BlendBatch(examples) ==
    [batch_size |-> Len(examples), image_size |-> ImageSize, n_bands |-> NumBands,
     examples |-> examples]

\* no call was made, no constructor was run, no generator was built
NoEntry == [via |-> "", type |-> ""]
NoCtor == [kind |-> "", use_mean |-> FALSE, use_band |-> None, error |-> ""]
NoGenerator ==
    /\ generator = [arg |-> [type |-> "list", items |-> << >>], deblenders |-> << >>,
                    deblender_names |-> << >>, njobs |-> 1, error |-> ""]
    /\ gen_pc = "none"
    /\ cur = 0
    /\ deblended_output = << >>
    /\ pulled = << >>
    /\ advance_log = << >>

Init ==
    /\ deblender \in Deblenders
    /\ blend_batch = BlendBatch(<< >>)
    /\ njobs = 1
    /\ pc = "idle"
    /\ task = << >>
    /\ output = << >>
    /\ completed = << >>
    /\ band_log = << >>
    /\ ret = Raise("")
    /\ entry = NoEntry
    /\ ctor = NoCtor
    /\ NoGenerator

\* ----------------------------------------------------------------- actions
SkipLastIndex(b) == 1..(b.batch_size - 1)

\* line 88: the indices ii of range(blend_batch.batch_size)
args_iter(b) == 1..b.batch_size

\* batch_call is entered: one unit of work (ii, blend_batch) per example
batch_call(examples, nj) ==
    /\ pc = "idle"
    /\ blend_batch' = BlendBatch(examples)
    /\ njobs' = nj
    /\ task' = [i \in args_iter(BlendBatch(examples)) |-> "queued"]
    /\ output' = [i \in args_iter(BlendBatch(examples)) |-> Raise("")]
    /\ band_log' = [i \in args_iter(BlendBatch(examples)) |-> << >>]
    /\ completed' = << >>
    /\ pc' = "multiprocess"
    /\ UNCHANGED << deblender, ret, ctor >>

\* line 53: isinstance(blend_batch, BlendBatch)
isinstance_BlendBatch(arg) == arg.type = "BlendBatch"

CallWithoutTypeCheck(arg, nj) ==
    /\ batch_call(arg.examples, nj)
    /\ entry' = [via |-> "__call__", type |-> arg.type]
    /\ UNCHANGED gen_vars

\* lines 41-57: Deblender.__call__ checks the type of its argument and hands a
\* BlendBatch to batch_call
__call__(arg, nj) ==
    /\ pc = "idle"
    /\ entry' = [via |-> "__call__", type |-> arg.type]
    /\ IF ~isinstance_BlendBatch(arg)
       THEN /\ pc' = "raised"
            /\ ret' = Raise("TypeError")
            /\ UNCHANGED << deblender, blend_batch, njobs, task, output, completed,
                            band_log, ctor >>
       ELSE batch_call(arg.examples, nj)
    /\ UNCHANGED gen_vars

Running == {i \in DOMAIN task : task[i] = "running"}
Failed == {i \in DOMAIN task : task[i] = "finished" /\ output[i].error # ""}

\* a worker of the pool takes a unit of work; one worker runs them in order
\* and stops at the first error
worker_start(i) ==
    /\ pc = "multiprocess"
    /\ task[i] = "queued"
    /\ Cardinality(Running) < njobs
    /\ njobs = 1 => /\ Failed = {}
                    /\ \A j \in 1..(i - 1) : task[j] = "finished"
    /\ task' = [task EXCEPT ![i] = "running"]
    /\ UNCHANGED << deblender, blend_batch, njobs, pc, output, completed, band_log, ret >>
    /\ UNCHANGED << entry, ctor, gen_vars >>

\* the worker's deblend(ii, blend_batch) call returns or raises
worker_finish(i) ==
    /\ pc = "multiprocess"
    /\ task[i] = "running"
    /\ output' = [output EXCEPT ![i] = deblend(deblender, i, blend_batch)]
    /\ band_log' = [band_log EXCEPT ![i] = band_log_of(deblender, i, blend_batch)]
    /\ task' = [task EXCEPT ![i] = "finished"]
    /\ completed' = Append(completed, i)
    /\ deblender' = self_after_deblend(deblender, i, blend_batch)
    /\ blend_batch' = batch_after_deblend(deblender, i, blend_batch)
    /\ UNCHANGED << njobs, pc, ret >>
    /\ UNCHANGED << entry, ctor, gen_vars >>

\* what multiprocess hands back: the first error raised, or the results in
\* the order of the units of work
multiprocess(tasks, results, order) ==
    LET bad == {k \in 1..Len(order) : results[order[k]].error # ""}
    IN  IF bad # {}
        THEN [error |-> results[order[CHOOSE k \in bad : \A x \in bad : k <= x]].error,
              results |-> << >>]
        ELSE [error |-> "", results |-> results]

\* multiprocess raises the error of a unit of work
batch_call_raise ==
    /\ pc = "multiprocess"
    /\ Failed # {}
    /\ ret' = batch_call_result(deblender, blend_batch,
                                multiprocess(task, output, completed))
    /\ pc' = IF ret'.error = "" THEN "returned" ELSE "raised"
    /\ UNCHANGED << deblender, blend_batch, njobs, task, output, completed, band_log >>
    /\ UNCHANGED << entry, ctor, gen_vars >>

\* multiprocess returns and batch_call reconciles the results
batch_call_return ==
    /\ pc = "multiprocess"
    /\ Failed = {}
    /\ \A i \in DOMAIN task : task[i] = "finished"
    /\ ret' = batch_call_result(deblender, blend_batch,
                                multiprocess(task, output, completed))
    /\ pc' = IF ret'.error = "" THEN "returned" ELSE "raised"
    /\ UNCHANGED << deblender, blend_batch, njobs, task, output, completed, band_log >>
    /\ UNCHANGED << entry, ctor, gen_vars >>

Batches == UNION {[1..n -> Scenes(deblender.kind)] : n \in 0..MaxBatch}

\* what a caller may hand to a strategy: a batch, or a batch of another class
Args == {[type |-> t, examples |-> examples] :
            t \in {"BlendBatch", "MultiResolutionBlendBatch"}, examples \in Batches}

Next ==
    \/ pc = "idle" /\ \E arg \in Args, nj \in 1..MaxJobs : __call__(arg, nj)
    \/ \E i \in DOMAIN task : worker_start(i)
    \/ \E i \in DOMAIN task : worker_finish(i)
    \/ batch_call_raise
    \/ batch_call_return

Spec == Init /\ [][Next]_vars

\* one call of deblend: a batch of one example drawn from Examples
NextDeblend ==
    \/ pc = "idle" /\ \E ex \in Examples(deblender.kind) :
                          /\ batch_call(<< ex >>, 1)
                          /\ entry' = [via |-> "batch_call", type |-> "BlendBatch"]
                          /\ UNCHANGED gen_vars
    \/ \E i \in DOMAIN task : worker_start(i)
    \/ \E i \in DOMAIN task : worker_finish(i)
    \/ batch_call_raise
    \/ batch_call_return

SpecDeblend == Init /\ [][NextDeblend]_vars

\* ------------------------------------------------------- DeblendGenerator
MaxDeblenders == 3
MaxAdvance == 2

\* no strategy is bound
NoDeblender ==
    [kind |-> "", max_n_sources |-> 0, allow_over_n_sources |-> FALSE,
     matching_threshold |-> 0]

\* what batch_call of a MultiResolutionDeblender works with: no configuration
MultiResolution ==
    [kind |-> "MultiResolutionDeblender", max_n_sources |-> 0,
     allow_over_n_sources |-> FALSE, matching_threshold |-> 0]

SepSingleBandOf(max_n_sources) ==
    [kind |-> "SepSingleBand", max_n_sources |-> max_n_sources,
     allow_over_n_sources |-> FALSE, matching_threshold |-> MaxThr]

\* the objects a caller may pass as deblenders: instances of SepSingleBand, of
\* a subclass of it that the caller named SepSingleBand_0 and of a subclass of
\* MultiResolutionDeblender, the class SepSingleBand itself, the class dict,
\* and a string
GenObjects ==
    {[tag |-> "instance", name |-> "SepSingleBand", base |-> "Deblender",
      self |-> SepSingleBandOf(m)] : m \in {1, MaxN}}
    \cup {[tag |-> "instance", name |-> "SepSingleBand_0", base |-> "Deblender",
           self |-> SepSingleBandOf(MaxN)],
          [tag |-> "instance", name |-> "MultiResolution",
           base |-> "MultiResolutionDeblender", self |-> MultiResolution],
          [tag |-> "class", name |-> "SepSingleBand", base |-> "Deblender",
           self |-> NoDeblender],
          [tag |-> "class", name |-> "dict", base |-> "object",
           self |-> NoDeblender],
          [tag |-> "instance", name |-> "str", base |-> "object",
           self |-> NoDeblender]}

\* a tuple, as an element of a list
TupleObject ==
    [tag |-> "instance", name |-> "tuple", base |-> "object", self |-> NoDeblender]

\* the deblenders argument: a list, a tuple, or one object
DeblendersArgs ==
    {[type |-> t, items |-> items] :
        t \in {"list", "tuple"},
        items \in UNION {[1..n -> GenObjects] : n \in 0..MaxDeblenders}}
    \cup {[type |-> "single", items |-> << o >>] : o \in GenObjects}

inspect_isclass(o) == o.tag = "class"
issubclass(o, base) == o.tag = "class" /\ o.base = base
isinstance(o, base) == o.tag = "instance" /\ o.base = base

RejectOnlyClasses(o) ==
    IF inspect_isclass(o) THEN "TypeError" ELSE ""

\* lines 977-990: the checks of one element of the list
validate_one(o) ==
    IF inspect_isclass(o)
    THEN IF ~(issubclass(o, "Deblender")
              \/ issubclass(o, "MultiResolutionDeblender"))
         THEN "TypeError"
         ELSE "TypeError"
    ELSE IF ~isinstance(o, "Deblender")
            /\ ~isinstance(o, "MultiResolutionDeblender")
         THEN "TypeError"
         ELSE ""

\* lines 966-991: a non-list is wrapped into a list, the first element that
\* fails a check raises, the list is returned
_validate_deblenders(deblenders) ==
    LET list == IF deblenders.type = "list" THEN deblenders.items
                ELSE IF deblenders.type = "tuple" THEN << TupleObject >>
                ELSE << deblenders.items[1] >>
        bad == {k \in 1..Len(list) : validate_one(list[k]) # ""}
    IN  IF bad # {}
        THEN Raise(validate_one(list[CHOOSE k \in bad : \A x \in bad : k <= x]))
        ELSE Return(list)

\* str(deblender): Deblender.__repr__ (lines 112-115) gives the class name
str(o) == o.name

count(list, name) == Cardinality({k \in 1..Len(list) : list[k] = name})

SuffixLaterOnly(deblender_names, names_counts, ii) ==
    IF names_counts[deblender_names[ii]] = 0
    THEN deblender_names[ii]
    ELSE deblender_names[ii] \o "_" \o ToString(names_counts[deblender_names[ii]])

\* line 999: deblender_names[ii] += f"_{names_counts[name]}"
indexed_name(deblender_names, names_counts, ii) ==
    deblender_names[ii] \o "_" \o ToString(names_counts[deblender_names[ii]])

\* lines 997-1000: the loop over the names, from index ii on
RECURSIVE names_loop(_, _, _)
names_loop(deblender_names, names_counts, ii) ==
    IF ii > Len(deblender_names) THEN deblender_names
    ELSE IF deblender_names[ii] \in DOMAIN names_counts
         THEN names_loop(
                  [deblender_names EXCEPT
                       ![ii] = indexed_name(deblender_names, names_counts, ii)],
                  [names_counts EXCEPT ![deblender_names[ii]] = @ + 1],
                  ii + 1)
         ELSE names_loop(deblender_names, names_counts, ii + 1)

\* lines 993-1001: the names of the deblenders, indexed where a name repeats
_get_unique_deblender_names(deblenders) ==
    LET deblender_names == [k \in 1..Len(deblenders) |-> str(deblenders[k])]
        repeated == {deblender_names[k] : k \in 1..Len(deblenders)}
        names_counts == [name \in {n \in repeated : count(deblender_names, n) > 1}
                             |-> 0]
    IN  names_loop(deblender_names, names_counts, 1)

\* the constructor was not run yet
NewGenerator ==
    [arg |-> [type |-> "list", items |-> << >>], deblenders |-> << >>,
     deblender_names |-> << >>, njobs |-> 1, error |-> ""]

\* lines 938-960: DeblendGenerator.__init__
DeblendGenerator__init__(deblenders, nj) ==
    /\ gen_pc = "new"
    /\ LET validated == _validate_deblenders(deblenders)
       IN  IF validated.error # ""
           THEN /\ generator' = [NewGenerator EXCEPT !.arg = deblenders,
                                                     !.error = validated.error]
                /\ gen_pc' = "rejected"
           ELSE /\ generator' =
                       [arg |-> deblenders,
                        deblenders |-> validated.value[1],
                        deblender_names |->
                            _get_unique_deblender_names(validated.value[1]),
                        njobs |-> nj,
                        error |-> ""]
                /\ gen_pc' = "ready"
    /\ UNCHANGED << call_vars, entry, ctor, cur, deblended_output, pulled, advance_log >>

\* the batches next(self.draw_blend_generator) may give: one scene, empty or full
UpstreamBatches ==
    {BlendBatch(<< s >>) : s \in {x \in Scenes("SepSingleBand") :
                                     Len(x.detections[1]) \in {0, MaxSources}}}

\* a dict assignment: a key that is present keeps its place and takes the value
DictSet(dict, key, value) ==
    IF \E k \in 1..Len(dict) : dict[k][1] = key
    THEN [k \in 1..Len(dict) |->
              IF dict[k][1] = key THEN << key, value >> ELSE dict[k]]
    ELSE Append(dict, << key, value >>)

FirstPulled == pulled[1]

\* the local blend_batch of __next__: the batch its call of next() gave
local_blend_batch == pulled[Len(pulled)]

\* the strategy the comprehension of __next__ binds at position k
bound(k) ==
    IF k \in 1..Len(generator.deblenders) THEN generator.deblenders[k].self
    ELSE deblender

\* line 1011: __next__ takes the next batch of the upstream generator
__next__ ==
    /\ gen_pc = "ready"
    /\ pc = "idle"
    /\ Len(pulled) < MaxAdvance
    /\ \E b \in UpstreamBatches : pulled' = Append(pulled, b)
    /\ gen_pc' = "advancing"
    /\ cur' = 1
    /\ deblended_output' = << >>
    /\ deblender' = bound(1)
    /\ UNCHANGED << blend_batch, njobs, pc, task, output, completed, band_log, ret >>
    /\ UNCHANGED << entry, ctor, generator, advance_log >>

\* line 1013: deblender.batch_call(blend_batch, njobs=self.njobs) of the next
\* strategy; lines 162-181: of a MultiResolutionDeblender it raises
next_batch_call ==
    /\ gen_pc = "advancing"
    /\ cur <= Len(generator.deblenders)
    /\ pc = "idle"
    /\ IF deblender.kind = "MultiResolutionDeblender"
       THEN /\ pc' = "raised"
            /\ ret' = Raise("NotImplementedError")
            /\ UNCHANGED << deblender, blend_batch, njobs, task, output, completed,
                            band_log, ctor >>
       ELSE batch_call(local_blend_batch.examples, generator.njobs)
    /\ entry' = [via |-> "batch_call", type |-> "BlendBatch"]
    /\ UNCHANGED gen_vars

\* lines 1012-1015: the result goes into the dict under the strategy's name
next_collect ==
    /\ gen_pc = "advancing"
    /\ pc = "returned"
    /\ deblended_output' =
           DictSet(deblended_output, generator.deblender_names[cur], ret.value[1])
    /\ cur' = cur + 1
    /\ deblender' = bound(cur + 1)
    /\ pc' = "idle"
    /\ UNCHANGED << blend_batch, njobs, task, output, completed, band_log, ret >>
    /\ UNCHANGED << entry, ctor, generator, gen_pc, pulled, advance_log >>

\* an error of a batch_call leaves __next__
next_raise ==
    /\ gen_pc = "advancing"
    /\ pc = "raised"
    /\ advance_log' = Append(advance_log, [error |-> ret.error, blend_batch |-> None,
                                           deblended_output |-> << >>])
    /\ gen_pc' = "ready"
    /\ cur' = 0
    /\ pc' = "idle"
    /\ UNCHANGED << deblender, blend_batch, njobs, task, output, completed, band_log, ret >>
    /\ UNCHANGED << entry, ctor, generator, deblended_output, pulled >>

\* line 1016: return blend_batch, deblended_output
next_return ==
    /\ gen_pc = "advancing"
    /\ pc = "idle"
    /\ cur > Len(generator.deblenders)
    /\ advance_log' = Append(advance_log,
                             [error |-> "", blend_batch |-> Some(local_blend_batch),
                              deblended_output |-> deblended_output])
    /\ gen_pc' = "ready"
    /\ cur' = 0
    /\ UNCHANGED << call_vars, entry, ctor, generator, deblended_output, pulled >>

InitGenerator ==
    /\ deblender = NoDeblender
    /\ blend_batch = BlendBatch(<< >>)
    /\ njobs = 1
    /\ pc = "idle"
    /\ task = << >>
    /\ output = << >>
    /\ completed = << >>
    /\ band_log = << >>
    /\ ret = Raise("")
    /\ entry = NoEntry
    /\ ctor = NoCtor
    /\ generator = NewGenerator
    /\ gen_pc = "new"
    /\ cur = 0
    /\ deblended_output = << >>
    /\ pulled = << >>
    /\ advance_log = << >>

NextGenerator ==
    \/ gen_pc = "new" /\ \E deblenders \in DeblendersArgs, nj \in {1, MaxJobs} :
                             DeblendGenerator__init__(deblenders, nj)
    \/ __next__
    \/ next_batch_call
    \/ \E i \in DOMAIN task : worker_start(i)
    \/ \E i \in DOMAIN task : worker_finish(i)
    \/ batch_call_raise
    \/ batch_call_return
    \/ next_collect
    \/ next_raise
    \/ next_return

SpecGenerator == InitGenerator /\ [][NextGenerator]_vars

\* ------------------------------- PeakLocalMax.__init__, SepSingleBand.__init__
\* the values of use_band: None, or the index of a band
UseBands == {None} \cup {Some(k) : k \in 0..(NumBands - 1)}

BandZeroUnset(use_mean, use_band) ==
    IF (use_band = None \/ use_band = Some(0)) /\ ~use_mean THEN "ValueError"
    ELSE IF ~(use_band = None \/ use_band = Some(0)) /\ use_mean THEN "ValueError"
    ELSE ""

\* lines 216-219 and 291-294: the two checks of use_band and use_mean
band_choice_error(use_mean, use_band) ==
    IF use_band = None /\ ~use_mean THEN "ValueError"
    ELSE IF use_band # None /\ use_mean THEN "ValueError"
    ELSE ""

\* lines 192-221 and 270-298: the constructor of a single-band strategy
single_band__init__(kind, max_n_sources, use_mean, use_band) ==
    /\ ctor = NoCtor
    /\ ctor' = [kind |-> kind, use_mean |-> use_mean, use_band |-> use_band,
                error |-> band_choice_error(use_mean, use_band)]
    /\ deblender' =
           IF band_choice_error(use_mean, use_band) # "" THEN NoDeblender
           ELSE [kind |-> kind, max_n_sources |-> max_n_sources,
                 allow_over_n_sources |-> FALSE, matching_threshold |-> MaxThr]
    /\ UNCHANGED << blend_batch, njobs, pc, task, output, completed, band_log, ret >>
    /\ UNCHANGED << entry, gen_vars >>

InitConstruct ==
    /\ deblender = NoDeblender
    /\ blend_batch = BlendBatch(<< >>)
    /\ njobs = 1
    /\ pc = "idle"
    /\ task = << >>
    /\ output = << >>
    /\ completed = << >>
    /\ band_log = << >>
    /\ ret = Raise("")
    /\ entry = NoEntry
    /\ ctor = NoCtor
    /\ NoGenerator

\* a strategy is constructed and, if that succeeded, called on one example
NextConstruct ==
    \/ ctor = NoCtor /\ \E kind \in {"PeakLocalMax", "SepSingleBand"}, m \in 1..MaxN :
                            \E use_mean \in BOOLEAN, use_band \in UseBands :
                                single_band__init__(kind, m, use_mean, use_band)
    \/ pc = "idle" /\ deblender # NoDeblender /\ \E ex \in Examples(deblender.kind) :
                          /\ batch_call(<< ex >>, 1)
                          /\ entry' = [via |-> "batch_call", type |-> "BlendBatch"]
                          /\ UNCHANGED gen_vars
    \/ \E i \in DOMAIN task : worker_start(i)
    \/ \E i \in DOMAIN task : worker_finish(i)
    \/ batch_call_raise
    \/ batch_call_return

SpecConstruct == InitConstruct /\ [][NextConstruct]_vars

\* ------------------------------------------------------------------ claims
TaskFinished(i) == i \in DOMAIN task /\ task[i] = "finished"
TaskReturned(i) == TaskFinished(i) /\ output[i].error = ""
Range(s) == {s[k] : k \in 1..Len(s)}

\* C1: a returned DeblendBatch holds, at entry i of the catalog list and at row i
\* of the segmentation and deblended arrays, the result of deblend(i, batch),
\* for every worker count and every order in which the workers completed.
C1_InputOrder ==
    pc = "returned" =>
        LET db == ret.value[1]
        IN  /\ Len(db.catalog_list) = blend_batch.batch_size
            /\ \A i \in 1..blend_batch.batch_size :
                   LET r == deblend(deblender, i, blend_batch).value[1]
                   IN  /\ db.catalog_list[i] = r.catalog
                       /\ db.segmentation # None =>
                              /\ r.segmentation # None
                              /\ db.segmentation[1].planes[i] = r.segmentation[1].planes
                       /\ db.deblended_images # None =>
                              /\ r.deblended_images # None
                              /\ db.deblended_images[1].planes[i]
                                     = r.deblended_images[1].planes

\* two workers completed example 2 before example 1, and the results differ
C1_Witness ==
    /\ pc = "returned"
    /\ njobs = 2
    /\ completed = << 2, 1 >>
    /\ ret.value[1].catalog_list[1] # ret.value[1].catalog_list[2]
    /\ ret.value[1].segmentation # None

\* C2: without an overflow policy every result deblend returns has a catalog of
\* at most max_n_sources rows.
C2_CatalogWithinMax ==
    \A i \in DOMAIN task :
        (TaskReturned(i) /\ ~deblender.allow_over_n_sources) =>
            Len(output[i].value[1].catalog) <= deblender.max_n_sources

\* C3: without an overflow policy, a detecting strategy whose detector finds more
\* than max_n_sources detections in the image (in some band) raises.
C3_NoSilentTruncation ==
    \A i \in DOMAIN task :
        (/\ TaskFinished(i)
         /\ deblender.kind # "Scarlet"
         /\ ~deblender.allow_over_n_sources
         /\ \E band \in DOMAIN blend_batch.examples[i].detections :
                Len(blend_batch.examples[i].detections[band]) > deblender.max_n_sources)
        => output[i].error # ""

C5_EmptySetKeepsAll ==
    \A i \in DOMAIN task : \A k \in 2..Len(band_log[i]) :
        LET running == band_log[i][k - 1]
            cand == blend_batch.examples[i].detections[k]
        IN  (Len(running) = 0 \/ Len(cand) = 0) => band_log[i][k] = running \o cand

\* the first band found nothing and the second band's detections were all kept
C5_Witness ==
    \E i \in DOMAIN task :
        /\ TaskReturned(i)
        /\ Len(band_log[i]) >= 2
        /\ band_log[i][1] = << >>
        /\ Len(blend_batch.examples[i].detections[2]) = 2
        /\ band_log[i][2] = blend_batch.examples[i].detections[2]

\* C6: once deblend has raised for an example, batch_call returns no DeblendBatch:
\* it raises the error of a failed example.
C6_FailFast ==
    Failed # {} =>
        /\ pc # "returned"
        /\ ret.value = None
        /\ pc = "raised" => \E i \in Failed : ret.error = output[i].error

\* the batch call raised although another example had returned a result
C6_Witness ==
    /\ pc = "raised"
    /\ Failed # {}
    /\ \E j \in DOMAIN task : TaskReturned(j) /\ output[j].value[1].catalog # << >>

\* C7: each optional field of the DeblendBatch is materialized from all examples
\* iff the first example's field is not None, and is None otherwise; the catalog
\* list holds every example's catalog.
C7_FirstExampleDecides ==
    pc = "returned" =>
        LET db == ret.value[1]
            first == output[1].value[1]
            n == blend_batch.batch_size
        IN  /\ db.catalog_list = [i \in 1..n |-> output[i].value[1].catalog]
            /\ (db.segmentation # None) <=> (first.segmentation # None)
            /\ (db.deblended_images # None) <=> (first.deblended_images # None)
            /\ (db.extra_data # None) <=> (first.extra_data # None)
            /\ db.segmentation # None =>
                   db.segmentation[1].planes
                       = [i \in 1..n |-> output[i].value[1].segmentation[1].planes]
            /\ db.deblended_images # None =>
                   db.deblended_images[1].planes
                       = [i \in 1..n |-> output[i].value[1].deblended_images[1].planes]
            /\ db.extra_data # None =>
                   db.extra_data[1] = [i \in 1..n |-> output[i].value[1].extra_data]

\* the first example has no extra data, the second has, and the batch has none
C7_Witness ==
    /\ pc = "returned"
    /\ blend_batch.batch_size = 2
    /\ output[1].value[1].extra_data = None
    /\ output[2].value[1].extra_data # None
    /\ ret.value[1].extra_data = None
    /\ ret.value[1].deblended_images # None

\* C8: the examples of a batch agree on which optional fields they hold.
C8_UniformOptionalFields ==
    \A i \in DOMAIN task : \A j \in DOMAIN task :
        (TaskReturned(i) /\ TaskReturned(j)) =>
            LET x == output[i].value[1]
                y == output[j].value[1]
            IN  /\ (x.segmentation # None) <=> (y.segmentation # None)
                /\ (x.deblended_images # None) <=> (y.deblended_images # None)
                /\ (x.extra_data # None) <=> (y.extra_data # None)

\* C9: a Scarlet example whose fit hits a singular system returns an empty
\* catalog and all-zero deblended images of shape
\* [max_n_sources, n_bands, H, W]; it never makes the batch call raise, and a
\* returned batch holds the catalogs of the other examples.
C9_SingularRecovered ==
    deblender.kind = "Scarlet" =>
        /\ \A i \in DOMAIN task :
               (/\ TaskFinished(i)
                /\ blend_batch.examples[i].fit = "singular"
                /\ blend_batch.examples[i].detections[1] # << >>) =>
                   /\ output[i].error = ""
                   /\ output[i].value[1].catalog = << >>
                   /\ output[i].value[1].deblended_images # None
                   /\ output[i].value[1].deblended_images[1].shape =
                          << deblender.max_n_sources, blend_batch.n_bands,
                             blend_batch.image_size, blend_batch.image_size >>
                   /\ output[i].value[1].deblended_images[1].planes =
                          [k \in 1..deblender.max_n_sources |-> << >>]
        /\ (pc = "raised" /\ blend_batch.batch_size > 0) =>
               \E i \in Failed : blend_batch.examples[i].fit # "singular"
        /\ pc = "returned" =>
               \A j \in 1..blend_batch.batch_size :
                   ret.value[1].catalog_list[j] =
                       IF blend_batch.examples[j].fit = "singular"
                       THEN << >> ELSE blend_batch.examples[j].detections[1]

\* a returned batch with a singular example and another, fitted, example
C9_Witness ==
    /\ deblender.kind = "Scarlet"
    /\ pc = "returned"
    /\ \E i \in DOMAIN task :
           /\ blend_batch.examples[i].fit = "singular"
           /\ blend_batch.examples[i].detections[1] # << >>
           /\ ret.value[1].catalog_list[i] = << >>
    /\ \E j \in DOMAIN task :
           /\ blend_batch.examples[j].fit = "ok"
           /\ ret.value[1].catalog_list[j] # << >>

\* C10: on the overflow path of DeepDisc (allow_over_n_sources, n > max_n_sources
\* detections) the fixed arrays hold detections 1..max_n_sources in order, the
\* extra payload holds detections max_n_sources+1..n in order, and the counts
\* sum to n.
C10_OverflowSplit ==
    \A i \in DOMAIN task :
        LET dets == blend_batch.examples[i].detections[1]
            n == Len(dets)
            m == deblender.max_n_sources
        IN  (/\ TaskFinished(i)
             /\ deblender.kind = "DeepDisc"
             /\ deblender.allow_over_n_sources
             /\ n > m) =>
                /\ output[i].error = ""
                /\ LET r == output[i].value[1]
                       extra(key) == (CHOOSE e \in r.extra_data[1] : e[1] = key)[2]
                   IN  /\ r.segmentation[1].planes = [k \in 1..m |-> << dets[k] >>]
                       /\ r.deblended_images[1].planes = [k \in 1..m |-> << dets[k] >>]
                       /\ {e[1] : e \in r.extra_data[1]} = {"segs", "deblended_images"}
                       /\ extra("segs") = [k \in 1..(n - m) |-> << dets[m + k] >>]
                       /\ extra("deblended_images")
                              = [k \in 1..(n - m) |-> << dets[m + k] >>]
                       /\ Len(r.segmentation[1].planes) + Len(extra("segs")) = n

\* DeepDisc returned on the overflow path
C10_Witness ==
    \E i \in DOMAIN task :
        /\ TaskReturned(i)
        /\ deblender.kind = "DeepDisc"
        /\ deblender.allow_over_n_sources
        /\ Len(blend_batch.examples[i].detections[1]) > deblender.max_n_sources
        /\ output[i].value[1].extra_data # Some({})

\* an instance of Deblender or of MultiResolutionDeblender
Conforming(o) == o.tag = "instance" /\ o.base \in {"Deblender", "MultiResolutionDeblender"}
Accepted == gen_pc \in {"ready", "advancing"}

\* C11: the constructor of DeblendGenerator raises TypeError for every list that
\* holds a class or an object that is neither a Deblender nor a
\* MultiResolutionDeblender; it accepts one conforming instance and every list of
\* conforming instances, and keeps them in the order given; it succeeds only if
\* every element is a conforming instance.
C11_OnlyInstancesAccepted ==
    gen_pc # "new" =>
        LET arg == generator.arg
            all == \A k \in 1..Len(arg.items) : Conforming(arg.items[k])
        IN  /\ (arg.type = "list" /\ ~all) =>
                   gen_pc = "rejected" /\ generator.error = "TypeError"
            /\ (arg.type \in {"list", "single"} /\ all) =>
                   Accepted /\ generator.deblenders = arg.items
            /\ Accepted => all /\ generator.error = ""
            /\ ~Accepted => gen_pc = "rejected" /\ generator.deblenders = << >>

\* a list of a conforming instance followed by a string was rejected
C11_Witness ==
    /\ gen_pc = "rejected"
    /\ generator.arg.type = "list"
    /\ Len(generator.arg.items) = 2
    /\ Conforming(generator.arg.items[1])
    /\ generator.arg.items[2].tag = "instance"
    /\ ~Conforming(generator.arg.items[2])

\* C12: for every list of strategy instances, whatever their class names, the
\* names the generator assigns are pairwise distinct, and the mapping an advance
\* returns has exactly one entry per instance.
C12_NamesDistinct ==
    /\ Accepted =>
           \A i, j \in 1..Len(generator.deblender_names) :
               i # j => generator.deblender_names[i] # generator.deblender_names[j]
    /\ \A k \in 1..Len(advance_log) :
           advance_log[k].error = "" =>
               Len(advance_log[k].deblended_output) = Len(generator.deblenders)

\* the class name of the deblender at position i, and how many deblenders of
\* that class name the list holds in all and before position i
TypeName(i) == generator.deblenders[i].name
Occurrences(i) ==
    Cardinality({j \in 1..Len(generator.deblenders) : TypeName(j) = TypeName(i)})
Earlier(i) == Cardinality({j \in 1..(i - 1) : TypeName(j) = TypeName(i)})

\* C13 as stated: a strategy whose type occurs once is named by the type name
\* alone; of several instances of one type the first keeps the type name and the
\* later ones get a numeric suffix that increases in the order supplied.
C13_LaterInstancesSuffixed ==
    Accepted =>
        \A i \in 1..Len(generator.deblenders) :
            /\ Earlier(i) = 0 => generator.deblender_names[i] = TypeName(i)
            /\ Earlier(i) > 0 =>
                   \E k \in 0..Len(generator.deblenders) :
                       /\ generator.deblender_names[i]
                              = TypeName(i) \o "_" \o ToString(k)
                       /\ \A j \in 1..(i - 1) :
                              (TypeName(j) = TypeName(i) /\ Earlier(j) > 0) =>
                                  \E k2 \in 0..(k - 1) :
                                      generator.deblender_names[j]
                                          = TypeName(j) \o "_" \o ToString(k2)

\* C13: a strategy whose type name occurs once is named by the type name alone;
\* every instance of a type name that occurs several times, the first included,
\* is named by the type name followed by "_" and the number of instances of
\* that type name supplied before it.
C13_EveryInstanceSuffixed ==
    Accepted =>
        /\ Len(generator.deblender_names) = Len(generator.deblenders)
        /\ \A i \in 1..Len(generator.deblenders) :
               generator.deblender_names[i] =
                   IF Occurrences(i) = 1 THEN TypeName(i)
                   ELSE TypeName(i) \o "_" \o ToString(Earlier(i))

\* two instances of one type with an instance of another type between them
C13_Witness ==
    /\ Accepted
    /\ Len(generator.deblenders) = 3
    /\ TypeName(1) = TypeName(3)
    /\ TypeName(2) # TypeName(1)
    /\ generator.deblender_names[1] # TypeName(1)
    /\ generator.deblender_names[2] = TypeName(2)

\* what batch_call of strategy d gives on batch b, computed in one piece
BatchOutcome(d, b) ==
    IF d.kind = "MultiResolutionDeblender" THEN Raise("NotImplementedError")
    ELSE LET results == [i \in 1..b.batch_size |-> deblend(d, i, b)]
             bad == {i \in 1..b.batch_size : results[i].error # ""}
         IN  IF bad # {} THEN Raise("error") ELSE reconcile(d, b, results)

\* the value a dict holds under a key
DictGet(dict, key) == dict[CHOOSE k \in 1..Len(dict) : dict[k][1] = key][2]
DictKeys(dict) == {dict[k][1] : k \in 1..Len(dict)}

\* the last of the first n deblenders that carries the name of deblender j
LastNamed(j, n) ==
    CHOOSE x \in j..n :
        /\ generator.deblender_names[x] = generator.deblender_names[j]
        /\ \A y \in (x + 1)..n :
               generator.deblender_names[y] # generator.deblender_names[j]

\* the dict holds, for each of the first n deblenders, the result of batch_call
\* of the (last) deblender of that name on batch b
MappingOf(dict, n, b) ==
    /\ DictKeys(dict) = {generator.deblender_names[j] : j \in 1..n}
    /\ \A j \in 1..n :
           LET outcome == BatchOutcome(generator.deblenders[LastNamed(j, n)].self, b)
           IN  /\ outcome.error = ""
               /\ DictGet(dict, generator.deblender_names[j]) = outcome.value[1]

IsReturn(a) == a.error = ""

\* C14 as stated: over any sequence of advances the k-th returned pair refers to
\* the k-th upstream batch.
C14_KthReturnedIsKthBatch ==
    LET returned == SelectSeq(advance_log, IsReturn)
    IN  \A k \in 1..Len(returned) : returned[k].blend_batch = Some(pulled[k])

\* C14: each advance takes exactly one batch from the upstream generator, runs
\* batch_call of every configured strategy on that batch, one after the other in
\* the order of the list, and returns that batch with the mapping from names to
\* results; the pair the k-th advance returns refers to the k-th upstream batch,
\* and an advance that raises has used up its batch and returns no pair.
C14_AdvanceKUsesBatchK ==
    /\ Len(pulled) = Len(advance_log) + (IF gen_pc = "advancing" THEN 1 ELSE 0)
    /\ \A k \in 1..Len(advance_log) :
           IF advance_log[k].error = ""
           THEN /\ advance_log[k].blend_batch = Some(pulled[k])
                /\ MappingOf(advance_log[k].deblended_output,
                             Len(generator.deblenders), pulled[k])
           ELSE \E j \in 1..Len(generator.deblenders) :
                    BatchOutcome(generator.deblenders[j].self, pulled[k]).error # ""
    /\ gen_pc = "advancing" =>
           /\ MappingOf(deblended_output, cur - 1, pulled[Len(pulled)])
           /\ pc # "idle" =>
                  /\ deblender = generator.deblenders[cur].self
                  /\ pc # "raised" =>
                         /\ blend_batch = pulled[Len(pulled)]
                         /\ njobs = generator.njobs

\* the first advance raised, the second returned another batch with the results
\* of two strategies
C14_Witness ==
    /\ Len(advance_log) = 2
    /\ advance_log[1].error # ""
    /\ advance_log[2].error = ""
    /\ pulled[1] # pulled[2]
    /\ Len(advance_log[2].deblended_output) = 2

\* an array of n all-zero planes, n the leading dimension of its shape
AllZero(array, n) ==
    /\ array # None
    /\ array[1].shape[1] = n
    /\ Len(array[1].planes) = n
    /\ \A k \in 1..n : array[1].planes[k] = << >>

\* C15: for a strategy that produces segmentation or deblended arrays, an example
\* with zero detected sources gives an empty catalog and all-zero arrays with
\* leading dimension max_n_sources, never None; in a returned batch of such a
\* strategy every example has the arrays the first example has.
C15_ZeroDetections ==
    deblender.kind \in {"SepSingleBand", "DeepDisc", "Scarlet"} =>
        /\ \A i \in DOMAIN task :
               (TaskFinished(i) /\ Len(blend_batch.examples[i].detections[1]) = 0) =>
                   /\ output[i].error = ""
                   /\ output[i].value[1].catalog = << >>
                   /\ AllZero(output[i].value[1].deblended_images,
                              deblender.max_n_sources)
                   /\ deblender.kind # "Scarlet" =>
                          AllZero(output[i].value[1].segmentation,
                                  deblender.max_n_sources)
        /\ pc = "returned" =>
               \A i \in DOMAIN task :
                   /\ output[1].value[1].segmentation # None =>
                          output[i].value[1].segmentation # None
                   /\ output[1].value[1].deblended_images # None =>
                          output[i].value[1].deblended_images # None

\* a returned Scarlet batch whose first example has sources and images and
\* whose second example has an empty catalog
C15_Witness ==
    /\ pc = "returned"
    /\ deblender.kind = "Scarlet"
    /\ blend_batch.batch_size = 2
    /\ Len(blend_batch.examples[1].detections[1]) > 0
    /\ output[1].value[1].catalog # << >>
    /\ Len(blend_batch.examples[2].detections[1]) = 0
    /\ ret.value[1].deblended_images # None

\* C16: the constructor of PeakLocalMax and of SepSingleBand succeeds if and only
\* if exactly one of use_mean and use_band is selected, use_band = 0 counting as
\* selected; otherwise it raises ValueError and there is no strategy object.
C16_ExactlyOneBandChoice ==
    ctor # NoCtor =>
        LET selected == (IF ctor.use_mean THEN 1 ELSE 0)
                        + (IF ctor.use_band # None THEN 1 ELSE 0)
        IN  /\ ctor.error = "" <=> selected = 1
            /\ ctor.error = "" =>
                   deblender.kind = ctor.kind /\ deblender.max_n_sources >= 1
            /\ ctor.error # "" =>
                   /\ ctor.error = "ValueError"
                   /\ deblender = NoDeblender
                   /\ pc = "idle" /\ task = << >>

\* a strategy constructed with use_band = 0 and without use_mean has deblended
\* an example
C16_Witness ==
    /\ ctor.kind = "SepSingleBand"
    /\ ctor.use_band = Some(0)
    /\ ~ctor.use_mean
    /\ ctor.error = ""
    /\ pc = "returned"

\* C17: a strategy called on an argument that is not a BlendBatch raises TypeError
\* before any deblend call is started; called on a BlendBatch it returns, or
\* raises, what batch_call does on that batch.
C17_CallChecksType ==
    entry.via = "__call__" =>
        IF entry.type # "BlendBatch"
        THEN /\ pc = "raised"
             /\ ret = Raise("TypeError")
             /\ task = << >> /\ output = << >> /\ completed = << >>
        ELSE /\ pc # "idle"
             /\ pc \in {"returned", "raised"} =>
                    /\ ret = batch_call_result(deblender, blend_batch,
                                               multiprocess(task, output, completed))
                    /\ ret.error = "" <=> BatchOutcome(deblender, blend_batch).error = ""
                    /\ ret.error = "" => ret = BatchOutcome(deblender, blend_batch)

\* a strategy was called on a MultiResolutionBlendBatch and raised
C17_Witness ==
    /\ entry.via = "__call__"
    /\ entry.type = "MultiResolutionBlendBatch"
    /\ pc = "raised"

C19_OncePerIndex ==
    (pc # "idle" /\ entry.type = "BlendBatch") =>
        /\ DOMAIN task = 1..blend_batch.batch_size
        /\ \A x, y \in 1..Len(completed) : x # y => completed[x] # completed[y]
        /\ Range(completed) = {i \in DOMAIN task : task[i] = "finished"}
        /\ pc = "returned" =>
               /\ Len(completed) = blend_batch.batch_size
               /\ \A i \in 1..blend_batch.batch_size : TaskReturned(i)

\* two workers ran a batch of two examples; the one that failed was not run
\* again and the call raised
C19_Witness ==
    /\ pc = "raised"
    /\ njobs = 2
    /\ blend_batch.batch_size = 2
    /\ Len(completed) = 2
    /\ Failed # {}
    /\ \E i \in DOMAIN task : TaskReturned(i)

\* the entries of example i that band k added to the running set
FromBand(i, k) ==
    SubSeq(band_log[i][k],
           (IF k = 1 THEN 0 ELSE Len(band_log[i][k - 1])) + 1,
           Len(band_log[i][k]))

C21_EveryBatchSizeReturns ==
    (/\ entry.type = "BlendBatch"
     /\ pc \in {"returned", "raised"}
     /\ Failed = {})
    => /\ pc = "returned"
       /\ ret.value[1].batch_size = blend_batch.batch_size
       /\ Len(ret.value[1].catalog_list) = blend_batch.batch_size
       /\ blend_batch.batch_size = 0 =>
              /\ ret.value[1].catalog_list = << >>
              /\ ret.value[1].n_bands = None
              /\ ret.value[1].segmentation = None
              /\ ret.value[1].deblended_images = None
              /\ ret.value[1].extra_data = None

====
